---- MODULE Spec2Model ----
(***************************************************************************)
(* daangn-watcher (src/main.py): the watch registry, the per-filter        *)
(* monitor loop, the product_table ledger and the one-shot scan.           *)
(*                                                                         *)
(* The process is a single asyncio event loop.  A coroutine runs without   *)
(* interruption between two awaits, so every action below is one such      *)
(* uninterrupted burst: a request handler without awaits is one action, a  *)
(* monitor is one action per resumption (fetch returned, send_telegram     *)
(* returned, sleep elapsed, CancelledError delivered).                     *)
(*                                                                         *)
(* Strings are sequences of one-character strings, so that the filter key  *)
(* (an f-string) and key.split(":") are computed character by character.   *)
(* Time is counted in half days.                                           *)
(***************************************************************************)
EXTENDS Integers, Sequences, FiniteSets, TLC

VARIABLES
    ledger,          \* rows of product_table in insertion order
    _monitor_tasks,  \* filter key -> the asyncio task stored under it
    orphans,         \* tasks still running that _monitor_tasks no longer holds
    resp,            \* body of the last control-surface response
    sent,            \* ids send_telegram was called for by the last request
    observe,         \* which history is kept: "none", "iter" or "scan"
    iter,            \* history: what each monitor's current iteration did
    scanReq          \* history: the /scan request answered last

vars == <<ledger, _monitor_tasks, orphans, resp, sent, observe, iter, scanReq>>

----------------------------------------------------------------------------
(* Bounds *)

MaxSnap == 2     \* listings in one search-result page

----------------------------------------------------------------------------
(* Values *)

\* Optional[...] values: None is the empty tuple, a present value x is <<x>>
None == <<>>
Some(x) == <<x>>

NoTask == [pc |-> "absent"]             \* dict.get(key) finding nothing
NoReq == [days |-> 0]                   \* no /scan request answered yet

\* datetime.now(KST) when the module was imported, in half days
StartNow == 8

timedelta(days) == days * 2

\* line 46: datetime.now(KST) - timedelta(days=3)
server_start_time == StartNow - timedelta(3)

\* WatchRequest bodies the control surface receives
Filters ==
    { [location |-> <<"s">>, keyword |-> <<"a">>, min_price |-> None, max_price |-> None],
      [location |-> <<"s">>, keyword |-> <<"b">>, min_price |-> None, max_price |-> Some(1)] }

\* what fetch_search_results can extract for a monitor: the id and the
\* pull_up_time (None when the detail page gave no parsable <time datetime>)
Ids == {"A", "B"}
Listings ==
    { [id |-> "A", posted |-> Some(server_start_time + 1)],
      [id |-> "B", posted |-> Some(server_start_time + 1)],
      [id |-> "A", posted |-> Some(server_start_time)],
      [id |-> "B", posted |-> None] }

SeqsUpTo(S, n) == UNION { [1..m -> S] : m \in 0..n }

Snapshots == SeqsUpTo(Listings, MaxSnap)

\* condition of the sqlite file during one burst of a coroutine
DbStates == {"ok", "execute_error", "connect_error"}

\* the same with a file that can be read but refuses writes (a full disk, a
\* file without write permission)
AllDbStates == DbStates \cup {"readonly"}

\* how the post of send_to_one ends for the one chat
TgStates == {"delivered", "failed"}

\* the same with an exception that leaves send_telegram itself
AllTgStates == TgStates \cup {"raised"}

\* the same for a burst that only reads: product_exists fails alike on both
\* errors
ReadDbStates == {"ok", "connect_error"}

----------------------------------------------------------------------------
(* str() and the filter key *)

Digit(d) ==
    CASE d = 0 -> "0" [] d = 1 -> "1" [] d = 2 -> "2" [] d = 3 -> "3"
      [] d = 4 -> "4" [] d = 5 -> "5" [] d = 6 -> "6" [] d = 7 -> "7"
      [] d = 8 -> "8" [] d = 9 -> "9"

RECURSIVE IntStr(_)
IntStr(n) == IF n < 10 THEN <<Digit(n)>> ELSE IntStr(n \div 10) \o <<Digit(n % 10)>>

\* how an f-string renders an Optional[int]
PyStr(o) == IF o = None THEN <<"N", "o", "n", "e">> ELSE IntStr(o[1])

\* lines 331 and 391: f"{location}:{keyword}:{min_price}:{max_price}"
key(req) ==
    req.location \o <<":">> \o req.keyword \o <<":">> \o PyStr(req.min_price)
        \o <<":">> \o PyStr(req.max_price)

Keys == { key(f) : f \in Filters }

\* str.split(":")
RECURSIVE split(_)
split(s) ==
    IF \A i \in 1..Len(s) : s[i] # ":" THEN <<s>>
    ELSE LET i == CHOOSE j \in 1..Len(s) :
                      s[j] = ":" /\ \A h \in 1..(j - 1) : s[h] # ":"
         IN  <<SubSeq(s, 1, i - 1)>> \o split(SubSeq(s, i + 1, Len(s)))

----------------------------------------------------------------------------
(* Ledger: product_table, id TEXT PRIMARY KEY *)

LedgerIds(led) == { led[i].id : i \in 1..Len(led) }

\* product_exists with the WHERE clause lost: no row is ever found
product_exists_blind(led, item_id, db) ==
    IF db \in {"execute_error", "connect_error"} THEN "raise" ELSE "false"

\* lines 70-76.  No try: a failing connect or execute raises to the caller.
product_exists(led, item_id, db) ==
    IF db \in {"execute_error", "connect_error"} THEN "raise"
    ELSE IF item_id \in LedgerIds(led) THEN "true" ELSE "false"

\* mark_product with INSERT OR REPLACE: the stored row gives way to the new
mark_product_replace(led, row, db) ==
    CASE db = "ok" ->
            [ledger |-> LET Other(r) == r.id # row.id
                        IN  Append(SelectSeq(led, Other), row),
             raised |-> FALSE]
      [] db \in {"readonly", "execute_error"} -> [ledger |-> led, raised |-> FALSE]
      [] db = "connect_error" -> [ledger |-> led, raised |-> TRUE]

\* lines 78-92.  INSERT OR IGNORE keeps the stored row when the id exists.
\* An error in execute or commit is printed and swallowed.  When connect
\* itself fails, conn was never bound: the finally clause's "if conn"
\* raises UnboundLocalError, which leaves mark_product.
mark_product(led, row, db) ==
    CASE db = "ok" ->
            [ledger |-> IF row.id \in LedgerIds(led) THEN led ELSE Append(led, row),
             raised |-> FALSE]
      [] db \in {"readonly", "execute_error"} -> [ledger |-> led, raised |-> FALSE]
      [] db = "connect_error" -> [ledger |-> led, raised |-> TRUE]

\* the row monitor_keyword writes for a listing (line 266); the columns
\* copied verbatim from the listing are left out
Row(it, keyword) == [id |-> it.id, keyword |-> keyword]

----------------------------------------------------------------------------
(* History variables.  They record, they are never read by the program.    *)

\* of the page a monitor iteration fetched: the ids it had to announce
\* (owed), the ids of recent listings the ledger already held (known), the
\* ids of listings not posted after the server start (old), the ids of
\* listings without a posted time (untimed); of what the iteration did: the
\* ids send_telegram and mark_product were called with, the ids whose
\* message reached the chat (delivered), and whether the storage or the
\* delivery failed on the way
NoIter ==
    [owed |-> {}, known |-> {}, old |-> {}, untimed |-> {}, notified |-> <<>>,
     inserted |-> <<>>, delivered |-> <<>>, fault |-> FALSE]

\* a listing the monitor has to announce when it sees it with ledger led
Qualifies(it, led) ==
    /\ it.posted # None
    /\ it.posted[1] > server_start_time
    /\ it.id \notin LedgerIds(led)

IsUntimed(it) == it.posted = None

IsOld(it) == it.posted # None /\ it.posted[1] <= server_start_time

IsKnown(it, led) ==
    it.posted # None /\ it.posted[1] > server_start_time /\ it.id \in LedgerIds(led)

Elems(q) == { q[i] : i \in 1..Len(q) }

IdsOf(S) == { it.id : it \in S }

Count(q, x) == Cardinality({ i \in 1..Len(q) : q[i] = x })

----------------------------------------------------------------------------
(* monitor_keyword, lines 237-278 *)

\* a task as create_task returns it: the coroutine's arguments, where it is
\* suspended, whether cancel() was called on it, and the part of results the
\* for loop has not finished (its head is the listing being notified)
NewTask(req) == [filter |-> req, pc |-> "fetch", cancel |-> FALSE, rest |-> <<>>]

Tasks ==
    [filter : Filters, pc : {"fetch", "notify", "sleep", "recover", "cancelled"},
     cancel : BOOLEAN, rest : Snapshots]

\* Task.done(): monitor_keyword never returns or raises except through the
\* CancelledError handler of lines 276-278
done(t) == t.pc = "cancelled"

\* fetch_search_results, lines 145-233: [] on a failed request or a response
\* other than 200, else the listings of the page
fetch_search_results(http, page) == IF http = "ok" THEN page ELSE <<>>

\* send_telegram, lines 94-109: the list of per-chat results.  send_to_one
\* turns every failed post into a None result (lines 104-106).  The session
\* of line 98 is opened and closed outside that try: an exception there
\* leaves send_telegram.
send_telegram(tg) ==
    CASE tg = "delivered" -> [raised |-> FALSE, results |-> <<Some("json")>>]
      [] tg = "failed" -> [raised |-> FALSE, results |-> <<None>>]
      [] tg = "raised" -> [raised |-> TRUE, results |-> <<>>]

\* after_start with >= for >
after_start_inclusive(posted) ==
    IF posted = None THEN "raise"
    ELSE IF posted[1] >= server_start_time THEN "true" ELSE "false"

\* line 252: pull_up_text > server_start_time.  None > datetime raises
\* TypeError.
after_start(posted) ==
    IF posted = None THEN "raise"
    ELSE IF posted[1] > server_start_time THEN "true" ELSE "false"

\* pull_up_text with a missing time read as the present moment
pull_up_text_now(it) == IF it.posted = None THEN Some(StartNow) ELSE it.posted

\* line 244: it.get("pull_up_time_text", "").  fetch_search_results always
\* sets the key (line 223), so the default is never taken and a missing time
\* comes out as None.
pull_up_text(it) == it.posted

\* lines 242-275, from the listing at the head of items up to the next await:
\* the send_telegram of line 265, the sleep of line 272 once the loop is
\* through, or the sleep of line 275 when an exception reached line 273
RECURSIVE for_loop(_, _, _)
for_loop(items, led, db) ==
    IF items = <<>> THEN [pc |-> "sleep", rest |-> <<>>]
    ELSE LET it == Head(items)
             newer == after_start(pull_up_text(it))
             seen == product_exists(led, it.id, db)
         IN  CASE newer = "raise" -> [pc |-> "recover", rest |-> <<>>]
               [] newer = "false" -> for_loop(Tail(items), led, db)
               [] newer = "true" /\ seen = "raise" -> [pc |-> "recover", rest |-> <<>>]
               [] newer = "true" /\ seen = "true" -> for_loop(Tail(items), led, db)
               [] newer = "true" /\ seen = "false" -> [pc |-> "notify", rest |-> items]

\* the tasks that can be resumed: the loop resumes a task on which cancel()
\* was called only to throw CancelledError into it
Resumable(k, at) ==
    /\ _monitor_tasks[k] # NoTask
    /\ _monitor_tasks[k].pc = at
    /\ ~_monitor_tasks[k].cancel

Resume(k, next) ==
    _monitor_tasks' = [_monitor_tasks EXCEPT ![k] =
        [filter |-> @.filter, pc |-> next.pc, cancel |-> FALSE, rest |-> next.rest]]

Record(k, h) ==
    iter' = IF observe \in {"iter", "stop"} THEN [iter EXCEPT ![k] = h] ELSE iter

\* the deliveries are kept only where stopping is observed
Delivered(q, tg, id) ==
    IF observe = "stop" /\ tg = "delivered" THEN Append(q, id) ELSE q

Called(next) == IF next.pc = "notify" THEN <<Head(next.rest).id>> ELSE <<>>

\* monitor_fetched with "continue" for the sleep of line 275: after an
\* exception the loop is at its next fetch at once
monitor_fetched_no_recover(k, http, page, db) ==
    /\ Resumable(k, "fetch")
    /\ LET results == fetch_search_results(http, page)
           run == for_loop(results, ledger, db)
           next == IF run.pc = "recover" THEN [pc |-> "fetch", rest |-> <<>>] ELSE run
       IN  /\ Resume(k, next)
           /\ Record(k, [NoIter EXCEPT
                            !.owed = IdsOf({ x \in Elems(results) : Qualifies(x, ledger) }),
                            !.known = IdsOf({ x \in Elems(results) : IsKnown(x, ledger) }),
                            !.old = IdsOf({ x \in Elems(results) : IsOld(x) }),
                            !.untimed = IdsOf({ x \in Elems(results) : IsUntimed(x) }),
                            !.notified = Called(next),
                            !.fault = db # "ok"])
    /\ UNCHANGED <<ledger, orphans, resp, sent, observe, scanReq>>

\* line 241 returns: the loop runs up to its next await
monitor_fetched(k, http, page, db) ==
    /\ Resumable(k, "fetch")
    /\ LET results == fetch_search_results(http, page)
           next == for_loop(results, ledger, db)
       IN  /\ Resume(k, next)
           /\ Record(k, [owed |-> IdsOf({ x \in Elems(results) : Qualifies(x, ledger) }),
                         known |-> IdsOf({ x \in Elems(results) : IsKnown(x, ledger) }),
                         old |-> IdsOf({ x \in Elems(results) : IsOld(x) }),
                         untimed |-> IdsOf({ x \in Elems(results) : IsUntimed(x) }),
                         notified |-> Called(next),
                         inserted |-> <<>>,
                         delivered |-> <<>>,
                         fault |-> db # "ok"])
    /\ UNCHANGED <<ledger, orphans, resp, sent, observe, scanReq>>

\* monitor_notified without the try of lines 254-268: what send_telegram or
\* mark_product raises reaches line 273 and the rest of the page is dropped
monitor_notified_unguarded(k, tg, db) ==
    /\ Resumable(k, "notify")
    /\ LET t == _monitor_tasks[k]
           it == Head(t.rest)
           call == send_telegram(tg)
           ins == IF call.raised THEN [ledger |-> ledger, raised |-> TRUE]
                  ELSE mark_product(ledger, Row(it, t.filter.keyword), db)
           next == IF ins.raised THEN [pc |-> "recover", rest |-> <<>>]
                   ELSE for_loop(Tail(t.rest), ins.ledger, db)
       IN  /\ ledger' = ins.ledger
           /\ Resume(k, next)
           /\ Record(k, [iter[k] EXCEPT !.notified = @ \o Called(next),
                                        !.inserted = IF call.raised THEN @
                                                     ELSE Append(@, it.id),
                                        !.fault = TRUE])
    /\ UNCHANGED <<orphans, resp, sent, observe, scanReq>>

\* line 265 returns and mark_product is called, or line 265 raises and
\* line 266 is passed over; what either raises is caught at line 267 and the
\* loop goes on with the listings after this one
monitor_notified(k, tg, db) ==
    /\ Resumable(k, "notify")
    /\ LET t == _monitor_tasks[k]
           it == Head(t.rest)
           call == send_telegram(tg)
           ins == IF call.raised THEN [ledger |-> ledger, raised |-> FALSE]
                  ELSE mark_product(ledger, Row(it, t.filter.keyword), db)
           next == for_loop(Tail(t.rest), ins.ledger, db)
       IN  /\ ledger' = ins.ledger
           /\ Resume(k, next)
           /\ Record(k, [owed |-> iter[k].owed,
                         known |-> iter[k].known,
                         old |-> iter[k].old,
                         untimed |-> iter[k].untimed,
                         notified |-> iter[k].notified \o Called(next),
                         inserted |-> IF call.raised THEN iter[k].inserted
                                      ELSE Append(iter[k].inserted, it.id),
                         delivered |-> Delivered(iter[k].delivered, tg, it.id),
                         fault |-> \/ iter[k].fault
                                   \/ db # "ok"
                                   \/ call.raised
                                   \/ None \in Elems(call.results)])
    /\ UNCHANGED <<orphans, resp, sent, observe, scanReq>>

\* monitor_slept with the except of line 273 outside the while loop: the
\* exception that leads to the recovery sleep ends the coroutine
monitor_slept_ends(k) ==
    /\ \/ Resumable(k, "sleep")
       \/ Resumable(k, "recover")
    /\ Resume(k, [pc |-> IF _monitor_tasks[k].pc = "recover" THEN "cancelled" ELSE "fetch",
                  rest |-> <<>>])
    /\ Record(k, NoIter)
    /\ UNCHANGED <<ledger, orphans, resp, sent, observe, scanReq>>

\* asyncio.sleep(POLL_INTERVAL) of line 272 or asyncio.sleep(5) of line 275
\* elapses: back to while True
monitor_slept(k) ==
    /\ \/ Resumable(k, "sleep")
       \/ Resumable(k, "recover")
    /\ Resume(k, [pc |-> "fetch", rest |-> <<>>])
    /\ Record(k, NoIter)
    /\ UNCHANGED <<ledger, orphans, resp, sent, observe, scanReq>>

\* monitor_cancelled where CancelledError is an Exception (Python before
\* 3.8): thrown into the fetch or the send, it is caught at line 273 and the
\* loop goes on
monitor_cancelled_swallowed(k) ==
    /\ _monitor_tasks[k] # NoTask
    /\ _monitor_tasks[k].cancel
    /\ ~done(_monitor_tasks[k])
    /\ _monitor_tasks' = [_monitor_tasks EXCEPT ![k] =
           IF @.pc \in {"fetch", "notify"}
           THEN [filter |-> @.filter, pc |-> "recover", cancel |-> FALSE, rest |-> <<>>]
           ELSE [filter |-> @.filter, pc |-> "cancelled", cancel |-> TRUE, rest |-> <<>>]]
    /\ Record(k, NoIter)
    /\ UNCHANGED <<ledger, orphans, resp, sent, observe, scanReq>>

\* lines 276-278: CancelledError is thrown into the await the task is
\* suspended at; no except Exception on the way catches it.  Thrown into
\* the send_telegram of line 265, it finds the post either served by the
\* chat server already or not: line 266 is not reached in either case.
monitor_cancelled(k) ==
    /\ _monitor_tasks[k] # NoTask
    /\ _monitor_tasks[k].cancel
    /\ ~done(_monitor_tasks[k])
    /\ _monitor_tasks' = [_monitor_tasks EXCEPT ![k] =
           [filter |-> @.filter, pc |-> "cancelled", cancel |-> TRUE, rest |-> <<>>]]
    /\ \E tg \in TgStates :
          Record(k, IF _monitor_tasks[k].pc = "notify"
                    THEN [iter[k] EXCEPT !.delivered =
                            Delivered(@, tg, Head(_monitor_tasks[k].rest).id)]
                    ELSE iter[k])
    /\ UNCHANGED <<ledger, orphans, resp, sent, observe, scanReq>>

----------------------------------------------------------------------------
(* Control surface *)

\* watching with the "not" of line 332 lost
watching_inverted(t) == t # NoTask /\ done(t)

\* line 332: key in _monitor_tasks and not _monitor_tasks[key].done()
watching(t) == t # NoTask /\ ~done(t)

\* POST /watch, lines 329-339.  Line 338 overwrites the stored task; a task
\* dropped from the registry while still running goes on running.
watch(req) ==
    LET k == key(req)
        old == _monitor_tasks[k]
    IN  IF watching(old)
        THEN /\ resp' = [status |-> "already_watching"]
             /\ sent' = <<>>
             /\ UNCHANGED <<ledger, _monitor_tasks, orphans, observe, iter, scanReq>>
        ELSE /\ _monitor_tasks' = [_monitor_tasks EXCEPT ![k] = NewTask(req)]
             /\ orphans' = IF old # NoTask /\ ~done(old) THEN orphans \cup {old} ELSE orphans
             /\ resp' = [status |-> "watching", location |-> req.location,
                         keyword |-> req.keyword, min_price |-> req.min_price,
                         max_price |-> req.max_price]
             /\ sent' = <<>>
             /\ UNCHANGED <<ledger, observe, iter, scanReq>>

\* stop_watch answering "stopping" whether or not a task was found
stop_watch_always_stopping(req) ==
    LET k == key(req)
        t == _monitor_tasks[k]
    IN  /\ _monitor_tasks' = [_monitor_tasks EXCEPT ![k] =
               IF t = NoTask \/ done(t) THEN t
               ELSE [filter |-> t.filter, pc |-> t.pc, cancel |-> TRUE, rest |-> t.rest]]
        /\ resp' = [status |-> "stopping"]
        /\ sent' = <<>>
        /\ UNCHANGED <<ledger, orphans, observe, iter, scanReq>>

\* POST /stop, lines 389-396.  cancel() on a finished task does nothing.
stop_watch(req) ==
    LET k == key(req)
        t == _monitor_tasks[k]
    IN  IF t # NoTask
        THEN /\ _monitor_tasks' = [_monitor_tasks EXCEPT ![k] =
                    IF done(t) THEN t
                    ELSE [filter |-> t.filter, pc |-> t.pc, cancel |-> TRUE, rest |-> t.rest]]
             /\ resp' = [status |-> "stopping"]
             /\ sent' = <<>>
             /\ UNCHANGED <<ledger, orphans, observe, iter, scanReq>>
        ELSE /\ resp' = [status |-> "not_found"]
             /\ sent' = <<>>
             /\ UNCHANGED <<ledger, _monitor_tasks, orphans, observe, iter, scanReq>>

\* list_active without the test of line 384: every stored task is reported
list_active_all(reg) ==
    { [key |-> k, location |-> split(k)[1], keyword |-> split(k)[2]] :
        k \in { h \in DOMAIN reg : reg[h] # NoTask } }

\* GET /active, lines 380-387: the body built from the registry
list_active(reg) ==
    { [key |-> k, location |-> split(k)[1], keyword |-> split(k)[2]] :
        k \in { h \in DOMAIN reg : reg[h] # NoTask /\ ~done(reg[h]) } }

active_watches ==
    /\ resp' = [status |-> "active", body |-> list_active(_monitor_tasks)]
    /\ sent' = <<>>
    /\ UNCHANGED <<ledger, _monitor_tasks, orphans, observe, iter, scanReq>>

----------------------------------------------------------------------------
(* POST /scan, lines 341-378 *)

\* line 369: sent_items.append(id["id"]).  id is the builtin function, which
\* cannot be subscripted: TypeError.
sent_id(it) == "raise"

\* in_window with the monitor's ledger check added
in_window_unseen(it, cutoff_time) ==
    it.posted # None /\ it.posted[1] >= cutoff_time /\ it.id \notin LedgerIds(ledger)

\* lines 353 and 357
in_window(it, cutoff_time) == it.posted # None /\ it.posted[1] >= cutoff_time

\* lines 351-378: the loop over results with sent_items and the send_telegram
\* calls made so far; the except of line 377 turns an exception into the
\* error body
RECURSIVE scan_loop(_, _, _, _)
scan_loop(items, cutoff_time, sent_items, calls) ==
    IF items = <<>>
    THEN [body |-> [status |-> "success", sent_count |-> Len(sent_items),
                    sent_ids |-> sent_items],
          calls |-> calls]
    ELSE LET it == Head(items)
         IN  IF in_window(it, cutoff_time)
             THEN IF sent_id(it) = "raise"
                  THEN [body |-> [status |-> "error", detail |-> "TypeError"],
                        calls |-> Append(calls, it.id)]
                  ELSE scan_loop(Tail(items), cutoff_time,
                                 Append(sent_items, sent_id(it)), Append(calls, it.id))
             ELSE scan_loop(Tail(items), cutoff_time, sent_items, calls)

\* The handler awaits its fetch and its sends, but it reads and writes
\* nothing a monitor or another handler shares, so its bursts are taken
\* together.
scan_products(http, page, now_kst, days) ==
    LET results == fetch_search_results(http, page)
        cutoff_time == now_kst - timedelta(days)
        out == scan_loop(results, cutoff_time, <<>>, <<>>)
    IN  /\ resp' = out.body
        /\ sent' = out.calls
        /\ scanReq' = IF observe = "scan"
                      THEN [days |-> days, now |-> now_kst, results |-> results]
                      ELSE scanReq
        /\ UNCHANGED <<ledger, _monitor_tasks, orphans, observe, iter>>

----------------------------------------------------------------------------
(* Specifications *)

\* the pages a monitor's search request can bring back
Pages(http) == IF http = "ok" THEN Snapshots ELSE {<<>>}

\* ScanRequest.days values tried
ScanDays == {1, 3}

\* what fetch_search_results can extract for a scan made at StartNow: half a
\* day old, exactly one day old, two days old, and without a time
ScanListings ==
    { [id |-> "A", posted |-> Some(StartNow - 1)],
      [id |-> "A", posted |-> Some(StartNow - 2)],
      [id |-> "B", posted |-> Some(StartNow - 4)],
      [id |-> "B", posted |-> None] }

ScanPages(http) == IF http = "ok" THEN SeqsUpTo(ScanListings, MaxSnap) ELSE {<<>>}

\* lifespan runs init_db: the table exists; it is empty on a first run and
\* holds the rows of earlier runs otherwise
InitProgram ==
    /\ ledger \in {<<>>, <<[id |-> "A", keyword |-> <<"a">>]>>}
    /\ _monitor_tasks = [k \in Keys |-> NoTask]
    /\ orphans = {}
    /\ resp = [status |-> "none"]
    /\ sent = <<>>
    /\ iter = [k \in Keys |-> NoIter]
    /\ scanReq = NoReq

Init == InitProgram /\ observe = "none"

Next ==
    \/ \E req \in Filters : watch(req)
    \/ \E req \in Filters : stop_watch(req)
    \/ active_watches
    \/ \E days \in ScanDays, page \in SeqsUpTo(Listings, 1) :
            scan_products("ok", page, StartNow, days)
    \/ \E k \in Keys, http \in {"ok", "error"}, db \in ReadDbStates :
            \E page \in Pages(http) : monitor_fetched(k, http, page, db)
    \/ \E k \in Keys, tg \in AllTgStates, db \in AllDbStates :
            monitor_notified(k, tg, db)
    \/ \E k \in Keys : monitor_slept(k)
    \/ \E k \in Keys : monitor_cancelled(k)

Spec == Init /\ [][Next]_vars

\* the event loop resumes every task whose await has completed, and every
\* send and sleep of a monitor completes (timeout=10, a finite sleep)
Fairness ==
    \A k \in Keys :
        /\ WF_vars(\E tg \in AllTgStates, db \in AllDbStates :
                        monitor_notified(k, tg, db))
        /\ WF_vars(monitor_slept(k))
        /\ WF_vars(monitor_cancelled(k))

\* the registry and the monitors; the two handlers that only answer are left
\* out
NextCore ==
    \/ \E req \in Filters : watch(req)
    \/ \E req \in Filters : stop_watch(req)
    \/ \E k \in Keys, http \in {"ok", "error"}, db \in ReadDbStates :
            \E page \in Pages(http) : monitor_fetched(k, http, page, db)
    \/ \E k \in Keys, tg \in AllTgStates, db \in AllDbStates :
            monitor_notified(k, tg, db)
    \/ \E k \in Keys : monitor_slept(k)
    \/ \E k \in Keys : monitor_cancelled(k)

FairSpec == Init /\ [][NextCore]_vars /\ Fairness

\* the monitors at work, with the history of each iteration kept.  Stopping
\* is left out: a cancelled monitor does nothing more, and what it leaves
\* behind (a call without its row) is what a failed insert leaves too.  The
\* send returns and the storage works or fails as a whole; NextFault has the
\* other outcomes.
NextIter ==
    \/ \E req \in Filters : watch(req)
    \/ \E k \in Keys, http \in {"ok", "error"}, db \in ReadDbStates :
            \E page \in Pages(http) : monitor_fetched(k, http, page, db)
    \/ \E k \in Keys, tg \in TgStates, db \in DbStates :
            monitor_notified(k, tg, db)
    \/ \E k \in Keys : monitor_slept(k)

InitIter == InitProgram /\ observe = "iter"

IterSpec == InitIter /\ [][NextIter]_vars

\* the filter of the one monitor that is followed on its own
SoloFilters == { f \in Filters : f.max_price = None }

\* one monitor at work under every outcome of the delivery and of the
\* storage, with the history of each iteration kept
NextFault ==
    \/ \E req \in SoloFilters : watch(req)
    \/ \E k \in Keys, http \in {"ok", "error"}, db \in ReadDbStates :
            \E page \in Pages(http) : monitor_fetched(k, http, page, db)
    \/ \E k \in Keys, tg \in AllTgStates, db \in AllDbStates :
            monitor_notified(k, tg, db)
    \/ \E k \in Keys : monitor_slept(k)

InitFault == InitProgram /\ observe = "iter"

FaultSpec == InitFault /\ [][NextFault]_vars

\* one monitor started, stopped and started again on a working database,
\* with the deliveries of its iteration kept
NextStop ==
    \/ \E req \in SoloFilters : watch(req)
    \/ \E req \in SoloFilters : stop_watch(req)
    \/ \E k \in Keys, http \in {"ok", "error"} :
            \E page \in Pages(http) : monitor_fetched(k, http, page, "ok")
    \/ \E k \in Keys, tg \in TgStates : monitor_notified(k, tg, "ok")
    \/ \E k \in Keys : monitor_slept(k)
    \/ \E k \in Keys : monitor_cancelled(k)

InitStop == InitProgram /\ observe = "stop"

StopSpec == InitStop /\ [][NextStop]_vars

\* /scan requests with their history kept, served at any moment of a program
\* that watches, fetches and records
NextScan ==
    \/ \E req \in Filters : watch(req)
    \/ \E k \in Keys, page \in SeqsUpTo(Listings, 1) : monitor_fetched(k, "ok", page, "ok")
    \/ \E k \in Keys : monitor_notified(k, "delivered", "ok")
    \/ \E http \in {"ok", "error"}, days \in ScanDays :
            \E page \in ScanPages(http) : scan_products(http, page, StartNow, days)

InitScan == InitProgram /\ observe = "scan"

ScanSpec == InitScan /\ [][NextScan]_vars

\* WatchRequest bodies whose location or keyword may hold the separator of
\* the key: location and keyword are any str
ColonFilters ==
    { [location |-> l, keyword |-> w, min_price |-> None, max_price |-> None] :
        l \in {<<"s">>, <<"s", ":", "a">>}, w \in {<<"b">>, <<"a", ":", "b">>} }

ColonKeys == { key(f) : f \in ColonFilters }

\* the registry under such requests: watch and stop_watch build the key,
\* active_watches splits it
NextKey ==
    \/ \E req \in ColonFilters : watch(req)
    \/ \E req \in ColonFilters : stop_watch(req)
    \/ active_watches
    \/ \E k \in ColonKeys : monitor_cancelled(k)

InitKey ==
    /\ ledger = <<>>
    /\ _monitor_tasks = [k \in ColonKeys |-> NoTask]
    /\ orphans = {}
    /\ resp = [status |-> "none"]
    /\ sent = <<>>
    /\ observe = "none"
    /\ iter = [k \in ColonKeys |-> NoIter]
    /\ scanReq = NoReq

KeySpec == InitKey /\ [][NextKey]_vars

TypeOK ==
    /\ \A k \in Keys : _monitor_tasks[k] = NoTask \/ _monitor_tasks[k] \in Tasks
    /\ orphans \subseteq Tasks

----------------------------------------------------------------------------
(* Properties *)

Running(k) == _monitor_tasks[k] # NoTask /\ _monitor_tasks[k].pc # "cancelled"

At(k, pcs) == Running(k) /\ _monitor_tasks[k].pc \in pcs

Cancelling(k) == Running(k) /\ _monitor_tasks[k].cancel

Alone(k) == \A h \in Keys \ {k} : _monitor_tasks[h] = NoTask

UniqueIds(led) ==
    \A i, j \in 1..Len(led) : led[i].id = led[j].id => i = j

Rows == { Row(it, f.keyword) : it \in Listings, f \in Filters }

\* C1: every listing of a fetched page that has a posted time after the
\* server start and an id the ledger does not hold gets exactly one
\* send_telegram call and exactly one mark_product call in the iteration that
\* fetched the page, whatever else the page holds and in whatever order.
\* Stated for an iteration that is over, of the only monitor ever started,
\* with no storage or delivery failure.
C1_EachNewListingOnce ==
    \A k \in Keys :
        (At(k, {"sleep", "recover"}) /\ Alone(k) /\ ~iter[k].fault)
            => \A id \in iter[k].owed :
                    /\ Count(iter[k].notified, id) = 1
                    /\ Count(iter[k].inserted, id) = 1

\* the step in which monitor k calls send_telegram for the head of its rest
BeginsCall(k) ==
    /\ _monitor_tasks'[k] # NoTask
    /\ _monitor_tasks'[k].pc = "notify"
    /\ ~_monitor_tasks'[k].cancel
    /\ \/ _monitor_tasks[k].pc # "notify"
       \/ _monitor_tasks[k].rest # _monitor_tasks'[k].rest

\* C2: a monitor makes no send_telegram call for a listing whose id the
\* ledger holds when the monitor evaluates it: no call begins for an id that
\* is in the ledger at that moment, and an id the ledger held when the page
\* was fetched is never among the ids the iteration called send_telegram
\* with, whoever wrote the row.
C2_NoCallForLedgerId ==
    /\ [](\A k \in Keys : iter[k].known \cap Elems(iter[k].notified) = {})
    /\ [][\A k \in Keys :
            BeginsCall(k) => Head(_monitor_tasks'[k].rest).id \notin LedgerIds(ledger')]_vars

\* a monitor went through a page holding a recent listing whose row another
\* monitor or an earlier run wrote, and made no call for it
C2_Witness ==
    \E k \in Keys :
        /\ At(k, {"sleep"})
        /\ \E i \in 1..Len(ledger) :
              /\ ledger[i].id \in iter[k].known
              /\ ledger[i].keyword # _monitor_tasks[k].filter.keyword
              /\ ledger[i].id \notin Elems(iter[k].notified)

\* C3: a monitor never calls send_telegram and never writes a row for a
\* listing posted at or before the server start: the listing a monitor is
\* notifying was posted after it, and every change of the ledger is the row
\* of such a listing appended.
C3_NothingForOldListings ==
    /\ [](\A k \in Keys :
            At(k, {"notify"}) =>
                /\ Head(_monitor_tasks[k].rest).posted # None
                /\ Head(_monitor_tasks[k].rest).posted[1] > server_start_time)
    /\ [][ledger' # ledger =>
            \E k \in Keys :
                /\ At(k, {"notify"})
                /\ Head(_monitor_tasks[k].rest).posted[1] > server_start_time
                /\ ledger' = Append(ledger, Row(Head(_monitor_tasks[k].rest),
                                                _monitor_tasks[k].filter.keyword))]_vars

\* a monitor went through a page holding a listing posted at the server
\* start, with an id the ledger does not hold, and neither notified nor
\* recorded anything
C3_Witness ==
    \E k \in Keys :
        /\ At(k, {"sleep"})
        /\ iter[k].old # {}
        /\ iter[k].old \cap LedgerIds(ledger) = {}
        /\ iter[k].notified = <<>>
        /\ iter[k].inserted = <<>>

\* C4: mark_product is idempotent under any interleaving: the ledger never
\* holds two rows with one id, a row once written stays where it is and as
\* it is, and on a working database mark_product raises nothing and leaves
\* the ledger alone when the id is already there.
C4_InsertIdempotent ==
    /\ [](/\ UniqueIds(ledger)
          /\ \A row \in Rows :
                LET r == mark_product(ledger, row, "ok")
                IN  /\ ~r.raised
                    /\ UniqueIds(r.ledger)
                    /\ row.id \in LedgerIds(ledger) => r.ledger = ledger)
    /\ [][/\ Len(ledger') >= Len(ledger)
          /\ \A i \in 1..Len(ledger) : ledger'[i] = ledger[i]]_vars

\* two monitors both found the id missing, both called mark_product with it,
\* and the ledger holds one row for it
C4_Witness ==
    \E k, h \in Keys, id \in Ids :
        /\ k # h
        /\ id \in iter[k].owed /\ id \in iter[h].owed
        /\ id \in Elems(iter[k].inserted) /\ id \in Elems(iter[h].inserted)
        /\ ~iter[k].fault /\ ~iter[h].fault
        /\ Cardinality({ i \in 1..Len(ledger) : ledger[i].id = id }) = 1

\* monitors running for key k, in the registry or dropped from it
LiveMonitors(k) ==
    (IF Running(k) THEN 1 ELSE 0) + Cardinality({ o \in orphans : key(o.filter) = k })

\* C5: watch is idempotent on the filter key: for a key whose monitor is
\* running it answers already_watching and creates nothing, and at any time
\* at most one monitor is running per key.
C5_OneMonitorPerKey ==
    /\ [](\A k \in Keys : LiveMonitors(k) <= 1)
    /\ [][\A req \in Filters :
            (Running(key(req)) /\ watch(req)) =>
                /\ resp'.status = "already_watching"
                /\ _monitor_tasks' = _monitor_tasks
                /\ orphans' = orphans]_vars

\* a second watch for a running key was answered
C5_Witness ==
    /\ resp.status = "already_watching"
    /\ \E k \in Keys : Running(k)

\* C6: stop_watch for a key the registry does not hold answers not_found and
\* changes neither the registry nor any task; for a key the registry holds
\* it answers stopping.
C6_StopNotFound ==
    [][\A req \in Filters :
        stop_watch(req) =>
            IF _monitor_tasks[key(req)] = NoTask
            THEN /\ resp'.status = "not_found"
                 /\ _monitor_tasks' = _monitor_tasks
                 /\ orphans' = orphans
            ELSE resp'.status = "stopping"]_vars

\* a stop for a key never watched was answered while another monitor runs,
\* not cancelled
C6_Witness ==
    /\ resp.status = "not_found"
    /\ \E k, h \in Keys :
          /\ _monitor_tasks[k] = NoTask
          /\ Running(h) /\ ~_monitor_tasks[h].cancel

Listed(k) == \E e \in list_active(_monitor_tasks) : e.key = k

\* C7: after stop_watch on a running monitor, the monitor ends, wherever it
\* was suspended, and its key leaves the body of /active; the key comes back
\* only by a watch that creates a monitor.
C7_StopEndsMonitor ==
    /\ \A k \in Keys : Cancelling(k) ~> (~Running(k) /\ ~Listed(k))
    /\ [][\A k \in Keys : (~Listed(k) /\ Listed(k)') => resp'.status = "watching"]_vars

\* a monitor stopped and ended
C7_Witness ==
    \E k \in Keys :
        /\ _monitor_tasks[k] # NoTask
        /\ done(_monitor_tasks[k])
        /\ resp.status = "stopping"
        /\ ~Listed(k)

\* the listings of the request's page that fall in its lookback window
Lookback(req) ==
    LET InWindow(it) == it.posted # None /\ it.posted[1] >= req.now - timedelta(req.days)
    IN  SelectSeq(req.results, InWindow)

IdSeq(q) == [i \in 1..Len(q) |-> q[i].id]

Answered == scanReq # NoReq /\ resp.status \in {"success", "error"}

\* C8: a scan over N days answers success, with sent_count the number of
\* fetched listings that have a posted time at or after now - N days and
\* sent_ids the ids of exactly those listings.
C8_ScanReportsSent ==
    Answered =>
        /\ resp.status = "success"
        /\ resp.sent_count = Len(Lookback(scanReq))
        /\ resp.sent_ids = IdSeq(Lookback(scanReq))

IsPrefix(p, q) == Len(p) <= Len(q) /\ \A i \in 1..Len(p) : p[i] = q[i]

\* C9: a scan neither reads nor writes the ledger and leaves the registry
\* alone: the step that answers a scan changes no row and no task, and the
\* send_telegram calls of a scan are made for the listings in the lookback
\* window in page order, whatever the ledger holds.
C9_ScanLeavesLedger ==
    /\ [](Answered =>
            /\ IsPrefix(sent, IdSeq(Lookback(scanReq)))
            /\ sent = <<>> <=> Lookback(scanReq) = <<>>)
    /\ [][(resp'.status \in {"success", "error"}
            /\ <<resp, sent, scanReq>>' # <<resp, sent, scanReq>>)
          => UNCHANGED <<ledger, _monitor_tasks, orphans>>]_vars

\* a scan called send_telegram for an id the ledger holds, while a monitor
\* is running
C9_Witness ==
    /\ Answered
    /\ sent # <<>>
    /\ sent[1] \in LedgerIds(ledger)
    /\ \E k \in Keys : Running(k)

\* C10: a monitor ends only by cancellation: a running task ends only after
\* cancel() was called on it, and a monitor that is past its fetch, whatever
\* failed in the iteration, is back at the fetch of the next iteration
\* unless it is cancelled first.
C10_OnlyCancelEnds ==
    /\ [][\A k \in Keys : (Running(k) /\ ~Running(k)') => _monitor_tasks[k].cancel]_vars
    /\ \A k \in Keys :
          At(k, {"notify", "sleep", "recover"}) ~> (At(k, {"fetch"}) \/ Cancelling(k))

\* a monitor in its recovery sleep, after an exception in the iteration
C10_Witness ==
    \E k \in Keys : At(k, {"recover"}) /\ ~_monitor_tasks[k].cancel

\* C11: for every listing a monitor calls send_telegram for, mark_product is
\* called whatever the outcome of the call: delivered, failed for the chat,
\* or an exception leaving send_telegram.  Once a call is over, the ids
\* mark_product was called with in the iteration are the ids send_telegram
\* was called with; while a call is in flight, its id is the one ahead.
C11_InsertWhateverOutcome ==
    \A k \in Keys :
        Running(k) =>
            IF At(k, {"notify"})
            THEN iter[k].notified =
                    Append(iter[k].inserted, Head(_monitor_tasks[k].rest).id)
            ELSE iter[k].notified = iter[k].inserted

\* the ids that the page of monitor k's iteration holds only without a
\* posted time
OnlyUntimed(k) == iter[k].untimed \ (iter[k].owed \cup iter[k].known \cup iter[k].old)

\* C13: a monitor never calls send_telegram and never calls mark_product
\* for a listing without a posted time, in any iteration and whatever the
\* ledger holds: the listing a monitor is notifying has a posted time, an id
\* the page holds only without one is among neither the notified nor the
\* inserted ids of the iteration, and every change of the ledger is the row
\* of a listing with a posted time.
C13_NothingForUntimed ==
    /\ [](\A k \in Keys :
            /\ At(k, {"notify"}) => ~IsUntimed(Head(_monitor_tasks[k].rest))
            /\ Running(k) =>
                  OnlyUntimed(k) \cap (Elems(iter[k].notified) \cup Elems(iter[k].inserted)) = {})
    /\ [][ledger' # ledger =>
            \E k \in Keys :
                /\ At(k, {"notify"})
                /\ ~IsUntimed(Head(_monitor_tasks[k].rest))
                /\ LedgerIds(ledger') = LedgerIds(ledger) \cup {Head(_monitor_tasks[k].rest).id}]_vars

\* a monitor notified and recorded a listing, then came to a listing without
\* a posted time whose id the ledger does not hold, and did nothing for it
C13_Witness ==
    \E k \in Keys :
        /\ At(k, {"recover"})
        /\ iter[k].inserted # <<>>
        /\ OnlyUntimed(k) # {}
        /\ OnlyUntimed(k) \cap LedgerIds(ledger) = {}

\* C12: at every moment the body of /active holds exactly the keys whose
\* monitor has not ended: the key of every running monitor is in it and no
\* key of an ended monitor is, although ended tasks stay in the registry;
\* and the answer a request gets is that body.
C12_ActiveIsRunning ==
    /\ [](\A k \in Keys : Listed(k) <=> LiveMonitors(k) >= 1)
    /\ [][active_watches =>
            { e.key : e \in resp'.body } = { k \in Keys : LiveMonitors(k) >= 1 }]_vars

\* /active answered with the key of a running monitor and without the key
\* of an ended one that the registry still holds
C12_Witness ==
    /\ resp.status = "active"
    /\ \E k, h \in Keys :
          /\ _monitor_tasks[k] # NoTask /\ done(_monitor_tasks[k])
          /\ Running(h)
          /\ { e.key : e \in resp.body } = {h}

\* the step in which monitor k comes out of the send_telegram call for the
\* head of its rest
LeavesCall(k) ==
    /\ At(k, {"notify"})
    /\ ~_monitor_tasks[k].cancel
    /\ _monitor_tasks'[k].pc # "cancelled"
    /\ \/ _monitor_tasks'[k].pc # "notify"
       \/ _monitor_tasks'[k].rest # _monitor_tasks[k].rest

\* a listing whose own evaluation can end the iteration: line 252 raises for
\* a missing time, line 253 reads the storage for a recent listing
CanStop(it) == IsUntimed(it) \/ it.posted[1] > server_start_time

Drop(q, n) == SubSeq(q, n + 1, Len(q))

C15_CancelLeavesNothingHalf ==
    \A k \in Keys :
        (_monitor_tasks[k] # NoTask /\ done(_monitor_tasks[k]))
            => Elems(iter[k].delivered) \subseteq LedgerIds(ledger)

\* monitors of key k suspended in their fetch, in the registry or dropped
\* from it
FetchesInFlight(k) ==
    (IF At(k, {"fetch"}) THEN 1 ELSE 0)
        + Cardinality({ o \in orphans : key(o.filter) = k /\ o.pc = "fetch" })

\* C16: within one monitor the iterations follow one another: a monitor
\* comes to a fetch only out of a sleep that has elapsed (the poll interval
\* of line 272 or the recovery interval of line 275) or as a task just
\* created, at its fetch nothing of an iteration is left that a sleep has
\* not closed, and no key has two fetches in flight.
C16_IterationsSequential ==
    /\ [](\A k \in Keys :
            /\ At(k, {"fetch"}) => iter[k] = NoIter
            /\ FetchesInFlight(k) <= 1)
    /\ [][\A k \in Keys :
            (At(k, {"fetch"})' /\ ~At(k, {"fetch"}))
                => (At(k, {"sleep", "recover"}) \/ ~Running(k))]_vars

\* a monitor that notified and recorded a listing in an earlier iteration
\* is at its next fetch
C16_Witness ==
    \E k \in Keys :
        /\ At(k, {"fetch"})
        /\ \E i \in 1..Len(ledger) :
              /\ ledger[i].id = "B"
              /\ ledger[i].keyword = _monitor_tasks[k].filter.keyword

\* C17: a scan calls send_telegram exactly once for each fetched listing
\* that has a posted time at or after now - N days, however many of them the
\* page holds, and for no other listing: the calls of an answered scan are
\* the listings of its lookback window, one call each, in page order.
C17_ScanSendsEachOnce ==
    Answered => sent = IdSeq(Lookback(scanReq))

\* the send_telegram calls made for id in the iterations the monitors are in
CallsFor(id) ==
    { p \in UNION { { <<k, i>> : i \in 1..Len(iter[k].notified) } : k \in Keys } :
        iter[p[1]].notified[p[2]] = id }

\* C18: across the monitors running side by side, with no storage or
\* delivery failure, a listing id is passed to send_telegram at most once:
\* the iterations the monitors are in hold at most one call for it between
\* them.
C18_OneCallPerIdAcrossMonitors ==
    (\A k \in Keys : ~iter[k].fault) =>
        \A id \in Ids : Cardinality(CallsFor(id)) <= 1

\* C19: when watch returns, with either answer, and no stop for the key
\* follows, a monitor for the key is running from then on: the step of watch
\* leaves the key's monitor running with no cancellation waiting for it,
\* also when the watch comes right after a stop, before the cancelled
\* monitor has ended.
C19_StartLeavesWatched ==
    [][\A req \in Filters :
        watch(req) =>
            /\ Running(key(req))'
            /\ ~_monitor_tasks'[key(req)].cancel]_vars

\* C20: the key encodes (location, keyword, min_price, max_price) without
\* loss, the separator inside location or keyword included: the key a
\* monitor is stored under is the key of its filter and of no other filter,
\* already_watching is answered only to the filter the running monitor was
\* started with, and /active reports for each key the location and keyword
\* its monitor was started with.
C20_KeyIdentifiesFilter ==
    /\ [](\A k \in DOMAIN _monitor_tasks :
            _monitor_tasks[k] # NoTask =>
                \A f \in ColonFilters : key(f) = k <=> f = _monitor_tasks[k].filter)
    /\ [](\A e \in list_active(_monitor_tasks) :
            /\ e.location = _monitor_tasks[e.key].filter.location
            /\ e.keyword = _monitor_tasks[e.key].filter.keyword)
    /\ [][\A req \in ColonFilters :
            (watch(req) /\ resp'.status = "already_watching")
                => _monitor_tasks[key(req)].filter = req]_vars

====
